---- MODULE Spec2Model ----
(***************************************************************************)
(* Model of osfclient (rdmclient): the remote-path helpers of              *)
(* osfclient/utils.py and the commands of osfclient/cli.py (fetch, list,   *)
(* upload, remove, move) with the might_need_auth wrapper.                 *)
(*                                                                         *)
(* Python strings are modelled as sequences of one-character strings, so   *)
(* that startswith, split, slicing and index are computed as the code      *)
(* computes them.  Python's None is the value None below.                  *)
(***************************************************************************)
EXTENDS Integers, Sequences, FiniteSets, TLC

VARIABLES
    fn,               \* which function or command has run ("none" at first)
    path,             \* utils.py: the path argument
    normalize,        \* utils.py: split_storage's normalize argument
    env,              \* os.getenv('KNOWN_PROVIDERS'): None or a string
    result,           \* return value of the function applied
    target_file_path, \* is_path_matched: the pattern (None or a string)
    file_path,        \* is_path_matched: fileobj's materialized_path
    folders,          \* remote: storage name -> listing of folder paths
    files,            \* remote: storage name -> listing of file paths
    args,             \* cli.py: the arguments of the last command
    pre,              \* remote folders/files as they were before the command
    calls,            \* remote calls issued by the last command, in order
    exit,             \* "" or the message the command exited with
    creds,            \* the username and token _setup_osf resolves
    nops              \* number of commands run so far

vars == <<fn, path, normalize, env, result, target_file_path, file_path,
          folders, files, args, pre, calls, exit, creds, nops>>

utilsVars == <<path, normalize, env>>
matchVars == <<target_file_path, file_path>>
cliVars   == <<folders, files, args, pre, calls, exit, creds, nops>>

None == <<"None">>

----------------------------------------------------------------------------
(* Python str primitives on character sequences *)

Min(a, b) == IF a <= b THEN a ELSE b

\* s.startswith(p)
StartsWith(s, p) == Len(p) <= Len(s) /\ SubSeq(s, 1, Len(p)) = p

\* s.endswith(p)
EndsWith(s, p) ==
    Len(p) <= Len(s) /\ SubSeq(s, Len(s) - Len(p) + 1, Len(s)) = p

\* t in s
Contains(s, t) ==
    \E i \in 1..(Len(s) - Len(t) + 1) : SubSeq(s, i, i + Len(t) - 1) = t

\* c in s, for a single character c
HasChar(s, c) == \E i \in 1..Len(s) : s[i] = c

\* s.index(c) as a 1-based position (only used where c occurs in s)
Index(s, c) == CHOOSE i \in 1..Len(s) :
                   s[i] = c /\ \A j \in 1..(i - 1) : s[j] # c

\* s.split(c)
RECURSIVE Split(_, _)
Split(s, c) ==
    IF ~HasChar(s, c) THEN <<s>>
    ELSE LET i == Index(s, c)
         IN  <<SubSeq(s, 1, i - 1)>> \o Split(SubSeq(s, i + 1, Len(s)), c)

\* s.split(c, maxsplit=1)
SplitOnce(s, c) ==
    IF ~HasChar(s, c) THEN <<s>>
    ELSE LET i == Index(s, c)
         IN  <<SubSeq(s, 1, i - 1), SubSeq(s, i + 1, Len(s))>>

\* c.join(segs)
RECURSIVE Join(_, _)
Join(segs, c) ==
    IF segs = <<>> THEN <<>>
    ELSE IF Len(segs) = 1 THEN segs[1]
    ELSE segs[1] \o <<c>> \o Join(Tail(segs), c)

----------------------------------------------------------------------------
(* osfclient/utils.py *)

osfstorage  == <<"o","s","f","s","t","o","r","a","g","e">>
github      == <<"g","i","t","h","u","b">>
figshare    == <<"f","i","g","s","h","a","r","e">>
googledrive == <<"g","o","o","g","l","e","d","r","i","v","e">>
s3          == <<"s","3">>

KNOWN_PROVIDERS == <<osfstorage, github, figshare, googledrive>>

\* the loop of posixpath.normpath over the components of the path
RECURSIVE normpath_comps(_, _, _)
normpath_comps(comps, new_comps, initial_slashes) ==
    IF comps = <<>> THEN new_comps
    ELSE LET comp == Head(comps)
             dotdot == <<".", ".">>
         IN  IF comp = <<>> \/ comp = <<".">>
             THEN normpath_comps(Tail(comps), new_comps, initial_slashes)
             ELSE IF comp # dotdot
                     \/ (initial_slashes = 0 /\ new_comps = <<>>)
                     \/ (new_comps # <<>>
                         /\ new_comps[Len(new_comps)] = dotdot)
             THEN normpath_comps(Tail(comps), Append(new_comps, comp),
                                 initial_slashes)
             ELSE IF new_comps # <<>>
             THEN normpath_comps(Tail(comps),
                                 SubSeq(new_comps, 1, Len(new_comps) - 1),
                                 initial_slashes)
             ELSE normpath_comps(Tail(comps), new_comps, initial_slashes)

\* os.path.normpath on a POSIX system
normpath(p) ==
    IF p = <<>> THEN <<".">>
    ELSE LET initial_slashes ==
                 IF ~StartsWith(p, <<"/">>) THEN 0
                 ELSE IF StartsWith(p, <<"/", "/">>)
                         /\ ~StartsWith(p, <<"/", "/", "/">>) THEN 2
                 ELSE 1
             comps == normpath_comps(Split(p, "/"), <<>>, initial_slashes)
             joined == [i \in 1..initial_slashes |-> "/"] \o Join(comps, "/")
         IN  IF joined = <<>> THEN <<".">> ELSE joined

norm_remote_path(p) ==
    LET np == normpath(p)
    IN  IF StartsWith(np, <<"/">>) THEN SubSeq(np, 2, Len(np)) ELSE np

\* the override extending the built-in list instead of replacing it
known_providers_extend(e) ==
    IF e # None THEN Split(e, ",") \o KNOWN_PROVIDERS ELSE KNOWN_PROVIDERS

\* the provider list split_storage scans, read from the environment
known_providers(e) ==
    IF e # None THEN Split(e, ",") ELSE KNOWN_PROVIDERS

\* the provider prefix tested without its trailing separator
split_storage_nosep(p, default, norm, e) ==
    LET p1 == IF norm THEN norm_remote_path(p) ELSE p
        kp == known_providers(e)
    IN  IF \E i \in 1..Len(kp) : StartsWith(p1, kp[i])
        THEN SplitOnce(p1, "/")
        ELSE <<default, p1>>

\* the split taken on the path as given instead of the normalized path
split_storage_rawsplit(p, default, norm, e) ==
    LET p1 == IF norm THEN norm_remote_path(p) ELSE p
        kp == known_providers(e)
    IN  IF \E i \in 1..Len(kp) : StartsWith(p1, kp[i] \o <<"/">>)
        THEN SplitOnce(p, "/")
        ELSE <<default, p1>>

split_storage(p, default, norm, e) ==
    LET p1 == IF norm THEN norm_remote_path(p) ELSE p
        kp == known_providers(e)
    IN  IF \E i \in 1..Len(kp) : StartsWith(p1, kp[i] \o <<"/">>)
        THEN SplitOnce(p1, "/")
        ELSE <<default, p1>>


\* the suffix wildcard tested at the wrong end of the segment
seg_matched_swapped(target_file_path_seg, file_path_seg) ==
    LET t == target_file_path_seg
        f == file_path_seg
    IN  IF StartsWith(t, <<"%">>) /\ EndsWith(t, <<"%">>)
        THEN Contains(f, SubSeq(t, 2, Len(t) - 1))
        ELSE IF StartsWith(t, <<"%">>)
        THEN StartsWith(f, SubSeq(t, 2, Len(t)))
        ELSE IF EndsWith(t, <<"%">>)
        THEN EndsWith(f, SubSeq(t, 1, Len(t) - 1))
        ELSE f = t

\* lines 117-129: does one pattern segment accept one path segment
seg_matched(target_file_path_seg, file_path_seg) ==
    LET t == target_file_path_seg
        f == file_path_seg
    IN  IF StartsWith(t, <<"%">>) /\ EndsWith(t, <<"%">>)
        THEN Contains(f, SubSeq(t, 2, Len(t) - 1))
        ELSE IF StartsWith(t, <<"%">>)
        THEN EndsWith(f, SubSeq(t, 2, Len(t)))
        ELSE IF EndsWith(t, <<"%">>)
        THEN StartsWith(f, SubSeq(t, 1, Len(t) - 1))
        ELSE f = t

\* the trailing empty segment kept
drop_last_empty_never(segs) == segs

\* lines 111-114: drop one trailing empty segment
drop_last_empty(segs) ==
    IF segs[Len(segs)] = <<>> THEN SubSeq(segs, 1, Len(segs) - 1) ELSE segs

\* a pattern longer than the path rejected
RECURSIVE zip_matched_strict(_, _)
zip_matched_strict(tsegs, fsegs) ==
    IF tsegs = <<>> THEN TRUE
    ELSE IF fsegs = <<>> THEN FALSE
    ELSE IF ~seg_matched(Head(tsegs), Head(fsegs)) THEN FALSE
    ELSE zip_matched_strict(Tail(tsegs), Tail(fsegs))

\* lines 115-130: the loop over zip(target segments, file segments)
RECURSIVE zip_matched(_, _)
zip_matched(tsegs, fsegs) ==
    IF tsegs = <<>> \/ fsegs = <<>> THEN TRUE
    ELSE IF ~seg_matched(Head(tsegs), Head(fsegs)) THEN FALSE
    ELSE zip_matched(Tail(tsegs), Tail(fsegs))

is_path_matched(tfp, fp) ==
    IF tfp = None THEN TRUE
    ELSE zip_matched(drop_last_empty(Split(tfp, "/")),
                     drop_last_empty(Split(fp, "/")))

----------------------------------------------------------------------------
(* osfclient/cli.py: the remote objects and the move command *)

StorageNames == {osfstorage, github}

\* the objects remote calls are made on or passed to
StorageHandle(n) == [kind |-> "storage", storage |-> n, path |-> <<>>]
FolderHandle(n, p) == [kind |-> "folder", storage |-> n, path |-> p]
FileHandle(n, p) == [kind |-> "file", storage |-> n, path |-> p]
NoHandle == [kind |-> "none", storage |-> <<>>, path |-> <<>>]

\* one remote call: op on an object, with its arguments
Call(op, on, storage, name, dest, force) ==
    [op |-> op, on |-> on, storage |-> storage, name |-> name,
     dest |-> dest, force |-> force]

ProjectCall == Call("project", NoHandle, None, None, NoHandle, FALSE)
StorageCall(n) ==
    Call("storage", StorageHandle(n), None, None, NoHandle, FALSE)
FoldersCall(n) ==
    Call("folders", StorageHandle(n), None, None, NoHandle, FALSE)
FilesCall(n) ==
    Call("files", StorageHandle(n), None, None, NoHandle, FALSE)
CreateFolderCall(on, name) ==
    Call("create_folder", on, None, name, NoHandle, FALSE)
MoveToCall(f, target_storage, target_folder, to_filename, force) ==
    Call("move_to", f, target_storage, to_filename, target_folder, force)

\* the folder object create_folder returns: the child of that name
Created(parent, name) ==
    FolderHandle(parent.storage, parent.path \o <<"/">> \o name)

NoArgs == [cmd |-> "none", source |-> <<>>, target |-> <<>>, force |-> FALSE]
NoCreds == [username |-> None, token |-> None]

\* osf.has_auth after _setup_osf: a username (with its password) or a token
has_auth(c) == c.username # None \/ c.token # None

\* the command going on without the test of osf.has_auth
needs_credentials_never(c) == FALSE

\* lines 317, 359 and 382: upload, remove and move leave with a message
\* when the session has no credentials
needs_credentials(c) == ~has_auth(c)

Max(S) == CHOOSE m \in S : \A k \in S : k <= m

\* the child folder created on the storage instead of on its parent
RECURSIVE ensure_folder_flat(_, _, _)
ensure_folder_flat(store, listing, p) ==
    LET found == {i \in 1..Len(listing) : norm_remote_path(listing[i]) = p}
        look == <<FoldersCall(store)>>
    IN  IF found # {}
        THEN [folder |-> FolderHandle(store, listing[Max(found)]),
              calls |-> look]
        ELSE IF HasChar(p, "/")
        THEN LET sep == Index(p, "/")
                 parent == ensure_folder_flat(store, listing,
                                              SubSeq(p, 1, sep - 1))
                 name == SubSeq(p, sep + 1, Len(p))
             IN  [folder |-> Created(StorageHandle(store), name),
                  calls |-> look \o parent.calls
                            \o <<CreateFolderCall(StorageHandle(store),
                                                  name)>>]
        ELSE [folder |-> Created(StorageHandle(store), p),
              calls |-> look
                        \o <<CreateFolderCall(StorageHandle(store), p)>>]

\* _ensure_folder, lines 419-430
RECURSIVE ensure_folder(_, _, _)
ensure_folder(store, listing, p) ==
    LET found == {i \in 1..Len(listing) : norm_remote_path(listing[i]) = p}
        look == <<FoldersCall(store)>>
    IN  IF found # {}
        THEN [folder |-> FolderHandle(store, listing[Max(found)]),
              calls |-> look]
        ELSE IF HasChar(p, "/")
        THEN LET sep == Index(p, "/")
                 parent == ensure_folder(store, listing,
                                         SubSeq(p, 1, sep - 1))
                 name == SubSeq(p, sep + 1, Len(p))
             IN  [folder |-> Created(parent.folder, name),
                  calls |-> look \o parent.calls
                            \o <<CreateFolderCall(parent.folder, name)>>]
        ELSE [folder |-> Created(StorageHandle(store), p),
              calls |-> look
                        \o <<CreateFolderCall(StorageHandle(store), p)>>]

\* a separator-free target taken as a folder to ensure instead of a new name
target_parts_bare_folder(target_path) ==
    IF EndsWith(target_path, <<"/">>)
    THEN [folder_path |-> SubSeq(target_path, 1, Len(target_path) - 1),
          filename |-> None]
    ELSE IF HasChar(target_path, "/")
    THEN LET sep == Index(target_path, "/")
         IN  [folder_path |-> SubSeq(target_path, 1, sep - 1),
              filename |-> SubSeq(target_path, sep + 1, Len(target_path))]
    ELSE IF target_path = <<>>
    THEN [folder_path |-> None, filename |-> None]
    ELSE [folder_path |-> target_path, filename |-> None]

\* the test for an inner separator made before the test for a trailing one
target_parts_inner_first(target_path) ==
    IF HasChar(target_path, "/")
    THEN LET sep == Index(target_path, "/")
         IN  [folder_path |-> SubSeq(target_path, 1, sep - 1),
              filename |-> SubSeq(target_path, sep + 1, Len(target_path))]
    ELSE IF target_path = <<>>
    THEN [folder_path |-> None, filename |-> None]
    ELSE [folder_path |-> None, filename |-> target_path]

\* lines 390-402: the target path split into folder path and new name
target_parts(target_path) ==
    IF EndsWith(target_path, <<"/">>)
    THEN [folder_path |-> SubSeq(target_path, 1, Len(target_path) - 1),
          filename |-> None]
    ELSE IF HasChar(target_path, "/")
    THEN LET sep == Index(target_path, "/")
         IN  [folder_path |-> SubSeq(target_path, 1, sep - 1),
              filename |-> SubSeq(target_path, sep + 1, Len(target_path))]
    ELSE IF target_path = <<>>
    THEN [folder_path |-> None, filename |-> None]
    ELSE [folder_path |-> None, filename |-> target_path]

\* lines 413-416: one move_to per listed file whose normalized path matches
\* (t is the target: its storage, folder and filename)
RECURSIVE move_matches(_, _, _, _, _)
move_matches(store, listing, remote_path, t, force) ==
    IF listing = <<>> THEN <<>>
    ELSE LET rest == move_matches(store, Tail(listing), remote_path, t,
                                  force)
         IN  IF norm_remote_path(Head(listing)) = remote_path
             THEN <<MoveToCall(FileHandle(store, Head(listing)),
                               t.storage, t.folder, t.filename, force)>>
                  \o rest
             ELSE rest

\* the source listed before the target folder is ensured
move_calls_scan_first(a, fo, fi, e) ==
    LET ts == split_storage(a.target, osfstorage, FALSE, e)
        target_storage == ts[1]
        parts == target_parts(ts[2])
        ens == IF parts.folder_path = None
               THEN [folder |-> StorageHandle(target_storage),
                     calls |-> <<>>]
               ELSE ensure_folder(target_storage, fo[target_storage],
                                  parts.folder_path)
        ss == split_storage(a.source, osfstorage, TRUE, e)
    IN  <<ProjectCall, StorageCall(ss[1]), FilesCall(ss[1]),
          StorageCall(target_storage)>>
        \o ens.calls
        \o move_matches(ss[1], fi[ss[1]], ss[2],
                        [storage |-> target_storage, folder |-> ens.folder,
                         filename |-> parts.filename],
                        a.force)

\* the remote calls of move(args), in the order the code issues them
move_calls(a, fo, fi, e) ==
    LET ts == split_storage(a.target, osfstorage, FALSE, e)
        target_storage == ts[1]
        parts == target_parts(ts[2])
        ens == IF parts.folder_path = None
               THEN [folder |-> StorageHandle(target_storage),
                     calls |-> <<>>]
               ELSE ensure_folder(target_storage, fo[target_storage],
                                  parts.folder_path)
        ss == split_storage(a.source, osfstorage, TRUE, e)
    IN  <<ProjectCall, StorageCall(target_storage)>>
        \o ens.calls
        \o <<StorageCall(ss[1]), FilesCall(ss[1])>>
        \o move_matches(ss[1], fi[ss[1]], ss[2],
                        [storage |-> target_storage, folder |-> ens.folder,
                         filename |-> parts.filename],
                        a.force)

\* the last segment of a path
Basename(p) == LET segs == Split(p, "/") IN segs[Len(segs)]

\* a listing without the entries equal to p
RECURSIVE Without(_, _)
Without(listing, p) ==
    IF listing = <<>> THEN <<>>
    ELSE IF Head(listing) = p THEN Without(Tail(listing), p)
    ELSE <<Head(listing)>> \o Without(Tail(listing), p)

\* the remote folders after the create_folder calls of a command
RECURSIVE folders_after(_, _)
folders_after(fo, cs) ==
    IF cs = <<>> THEN fo
    ELSE LET c == Head(cs)
         IN  IF c.op = "create_folder"
             THEN folders_after(
                      [fo EXCEPT ![c.on.storage] =
                           Append(@, Created(c.on, c.name).path)],
                      Tail(cs))
             ELSE folders_after(fo, Tail(cs))

\* the remote files after the move_to calls of a command
RECURSIVE files_after(_, _)
files_after(fi, cs) ==
    IF cs = <<>> THEN fi
    ELSE LET c == Head(cs)
         IN  IF c.op = "move_to"
             THEN LET moved == c.dest.path \o <<"/">>
                                \o (IF c.name = None
                                    THEN Basename(c.on.path) ELSE c.name)
                      gone == [fi EXCEPT ![c.on.storage] =
                                   Without(@, c.on.path)]
                  IN  files_after(
                          [gone EXCEPT ![c.storage] =
                               Append(Without(@, moved), moved)],
                          Tail(cs))
             ELSE IF c.op = "create_file"
             THEN LET created == <<"/">> \o norm_remote_path(c.name)
                  IN  files_after(
                          IF c.raised THEN fi
                          ELSE [fi EXCEPT ![c.on.storage] =
                                    Append(Without(@, created), created)],
                          Tail(cs))
             ELSE IF c.op = "remove"
             THEN files_after([fi EXCEPT ![c.on.storage] =
                                   Without(@, c.on.path)],
                              Tail(cs))
             ELSE files_after(fi, Tail(cs))

\* os.path.split: (head, tail) around the last separator, the head without
\* its trailing separators unless it consists of separators only
path_split(p) ==
    LET seps == {i \in 1..Len(p) : p[i] = "/"}
        i == IF seps = {} THEN 0 ELSE Max(seps)
        head == SubSeq(p, 1, i)
        kept == {k \in 1..Len(head) : head[k] # "/"}
    IN  <<IF kept = {} THEN head ELSE SubSeq(head, 1, Max(kept)),
          SubSeq(p, i + 1, Len(p))>>

RemoveCall(f) == Call("remove", f, None, None, NoHandle, FALSE)
MakedirsCall(directory) ==
    Call("makedirs", NoHandle, None, directory, NoHandle, FALSE)
WriteToCall(f, local_path) ==
    Call("write_to", f, None, local_path, NoHandle, FALSE)

\* the loop left after the first file removed
RECURSIVE remove_matches_first(_, _, _)
remove_matches_first(store, listing, remote_path) ==
    IF listing = <<>> THEN <<>>
    ELSE IF norm_remote_path(Head(listing)) = remote_path
    THEN <<RemoveCall(FileHandle(store, Head(listing)))>>
    ELSE remove_matches_first(store, Tail(listing), remote_path)

\* lines 368-370: remove() on every listed file whose normalized path matches
RECURSIVE remove_matches(_, _, _)
remove_matches(store, listing, remote_path) ==
    IF listing = <<>> THEN <<>>
    ELSE LET rest == remove_matches(store, Tail(listing), remote_path)
         IN  IF norm_remote_path(Head(listing)) = remote_path
             THEN <<RemoveCall(FileHandle(store, Head(listing)))>> \o rest
             ELSE rest

\* the remote calls of remove(args), lines 363-370
remove_calls(a, fi, e) ==
    LET ss == split_storage(a.target, osfstorage, TRUE, e)
    IN  <<ProjectCall, StorageCall(ss[1]), FilesCall(ss[1])>>
        \o remove_matches(ss[1], fi[ss[1]], ss[2])

\* lines 215-219: the local path fetch writes to
fetch_local_path(a, e) ==
    IF a.local = None
    THEN path_split(split_storage(a.remote, osfstorage, TRUE, e)[2])[2]
    ELSE a.local

\* the overwrite check made only when update is set
fetch_aborts_update(a) == a.local_exists /\ ~a.force /\ a.update

\* lines 221-223: fetch refuses to overwrite
fetch_aborts(a) == a.local_exists /\ ~a.force /\ ~a.update

\* every matching file written, the loop never left
RECURSIVE fetch_matches_all(_, _, _, _)
fetch_matches_all(store, listing, remote_path, a) ==
    IF listing = <<>> THEN <<>>
    ELSE IF norm_remote_path(Head(listing)) = remote_path
    THEN IF a.local_exists /\ ~a.force /\ a.update /\ a.md5_equal
         THEN fetch_matches_all(store, Tail(listing), remote_path, a)
         ELSE <<WriteToCall(FileHandle(store, Head(listing)), a.local_path)>>
              \o fetch_matches_all(store, Tail(listing), remote_path, a)
    ELSE fetch_matches_all(store, Tail(listing), remote_path, a)

\* lines 233-243: the first matching file is written unless update finds the
\* local checksum equal to the remote md5; the loop ends at that file
RECURSIVE fetch_matches(_, _, _, _)
fetch_matches(store, listing, remote_path, a) ==
    IF listing = <<>> THEN <<>>
    ELSE IF norm_remote_path(Head(listing)) = remote_path
    THEN IF a.local_exists /\ ~a.force /\ a.update /\ a.md5_equal
         THEN <<>>
         ELSE <<WriteToCall(FileHandle(store, Head(listing)), a.local_path)>>
    ELSE fetch_matches(store, Tail(listing), remote_path, a)

\* the local and remote calls of fetch(args), lines 215-243
fetch_calls(a, fi, e) ==
    LET ss == split_storage(a.remote, osfstorage, TRUE, e)
        local_path == fetch_local_path(a, e)
        directory == path_split(local_path)[1]
    IN  IF fetch_aborts(a) THEN <<>>
        ELSE (IF directory # <<>> THEN <<MakedirsCall(directory)>>
              ELSE <<>>)
             \o <<ProjectCall, StorageCall(ss[1]), FilesCall(ss[1])>>
             \o fetch_matches(ss[1], fi[ss[1]], ss[2],
                              [a EXCEPT !.local_path = local_path])

\* os.path.join: a component that starts with a separator replaces what
\* precedes it; otherwise it is appended, after a separator unless the path
\* so far is empty or ends with one
RECURSIVE path_join_from(_, _)
path_join_from(joined, rest) ==
    IF rest = <<>> THEN joined
    ELSE LET b == Head(rest)
         IN  path_join_from(
                 IF StartsWith(b, <<"/">>) THEN b
                 ELSE IF joined = <<>> \/ EndsWith(joined, <<"/">>)
                 THEN joined \o b
                 ELSE joined \o <<"/">> \o b,
                 Tail(rest))

path_join(parts) == path_join_from(Head(parts), Tail(parts))

\* the non-empty segments of the normalized path
path_list(p) == SelectSeq(Split(normpath(p), "/"), LAMBDA x : x \notin {<<>>, <<".">>})

\* os.path.relpath(p, start) for two paths relative to the same directory:
\* '..' for each segment of start after the common prefix, then the
\* segments of p after it; '.' when nothing is left
relpath(p, start) ==
    LET path_segs == path_list(p)
        start_segs == path_list(start)
        agree == {k \in 0..Min(Len(path_segs), Len(start_segs)) :
                     SubSeq(path_segs, 1, k) = SubSeq(start_segs, 1, k)}
        i == Max(agree)
        rel_list == [k \in 1..(Len(start_segs) - i) |-> <<".", ".">>]
                    \o SubSeq(path_segs, i + 1, Len(path_segs))
    IN  IF rel_list = <<>> THEN <<".">> ELSE Join(rel_list, "/")

CreateFileCall(store, name, force, update, raised) ==
    [op |-> "create_file", on |-> StorageHandle(store), storage |-> None,
     name |-> name, dest |-> NoHandle, force |-> force, update |-> update,
     raised |-> raised]

\* the remote name without the name of the local directory
upload_name_flat(remote_path, source, root, fname) ==
    path_join(<<remote_path, relpath(root, source), fname>>)

\* lines 331-340: the remote name of the file fname found in directory root
upload_name(remote_path, source, root, fname) ==
    path_join(<<remote_path, path_split(source)[2], relpath(root, source),
                fname>>)

\* lines 333-340: os.walk(source) visits the directories of the tree, the
\* source first; the remote names of their files in that order
RECURSIVE upload_names(_, _, _)
upload_names(remote_path, source, tree) ==
    IF tree = <<>> THEN <<>>
    ELSE LET root == path_join(<<source>> \o Head(tree).dir)
         IN  [k \in 1..Len(Head(tree).files) |->
                  upload_name(remote_path, source, root, Head(tree).files[k])]
             \o upload_names(remote_path, source, Tail(tree))

\* the walk going on after a create_file call has raised
RECURSIVE upload_creates_continue(_, _, _, _)
upload_creates_continue(store, names, a, k) ==
    IF names = <<>> THEN <<>>
    ELSE <<CreateFileCall(store, Head(names), a.force, a.update, k = a.fail)>>
         \o upload_creates_continue(store, Tail(names), a, k + 1)

\* lines 341-342 and 346-347: one create_file call per name, in order; the
\* call that raises is the last one, its exception leaves upload
RECURSIVE upload_creates(_, _, _, _)
upload_creates(store, names, a, k) ==
    IF names = <<>> THEN <<>>
    ELSE IF k = a.fail
    THEN <<CreateFileCall(store, Head(names), a.force, a.update, TRUE)>>
    ELSE <<CreateFileCall(store, Head(names), a.force, a.update, FALSE)>>
         \o upload_creates(store, Tail(names), a, k + 1)

\* the remote calls of upload(args), lines 321-347
upload_calls(a, e) ==
    LET ss == split_storage(a.destination, osfstorage, TRUE, e)
        names == IF ~a.recursive THEN <<ss[2]>>
                 ELSE IF ~a.isdir THEN <<>>
                 ELSE upload_names(ss[2], a.source, a.tree)
    IN  <<ProjectCall, StorageCall(ss[1])>>
        \o upload_creates(ss[1], names, a, 1)

\* how upload(args) ends: the RuntimeError of line 327 or the exception of
\* a create_file call
upload_exit(a, cs) ==
    IF a.recursive /\ ~a.isdir
    THEN "Expected source ({}) to be a directory when using recursive mode."
    ELSE IF \E i \in 1..Len(cs) : cs[i].op = "create_file" /\ cs[i].raised
    THEN "create_file raised"
    ELSE ""

\* lines 37-47 and 50-55: the username of the command line, else of the
\* environment, else of the config file; the environment ignored
get_username_no_env(a) ==
    IF a.username # None THEN a.username ELSE a.file_username

get_username(a) ==
    IF a.username # None THEN a.username
    ELSE IF a.env_username # None THEN a.env_username
    ELSE a.file_username

\* lines 70-98: the credentials _setup_osf hands to OSF(): the token is read
\* only when there is no username
setup_osf(a) ==
    LET username == get_username(a)
    IN  [username |-> username,
         token |-> IF username # None THEN None ELSE a.env_token]

\* lines 109-120: how the wrapper of might_need_auth ends the process when
\* the wrapped command raises UnauthorizedException (the backquotes of the
\* first message are written as quotes)
might_need_auth_exit(a) ==
    IF get_username(a) = None /\ a.env_token = None
    THEN "Please set a username or token (run 'osf -h' for details)."
    ELSE "You are not authorized to access this project."

\* the storages of the project in the order the backend yields them
StorageOrder == <<osfstorage, github>>

StoragesCall == Call("storages", NoHandle, None, None, NoHandle, FALSE)
MatchedFilesCall(n, pattern) ==
    Call("matched_files", StorageHandle(n), None, pattern, NoHandle, FALSE)

\* a line list_ writes to the standard output
OutputLine(f, full_path, long_format) ==
    [op |-> "stdout", on |-> f, storage |-> None, name |-> full_path,
     dest |-> NoHandle, force |-> FALSE, long_format |-> long_format]

\* store.matched_files(path_filter): the files whose path passes the filter
matched_files(listing, pattern) ==
    SelectSeq(listing, LAMBDA f : is_path_matched(pattern, f))

\* lines 257-258: one leading separator removed
strip_leading(p) == IF StartsWith(p, <<"/">>) THEN Tail(p) ELSE p

\* lines 259 and 262: base_path.index('/') raises ValueError when the path
\* has no separator
list_raises(a) ==
    a.base_path # None /\ ~HasChar(strip_leading(a.base_path), "/")

\* lines 257-261: the pattern list_ filters with
base_file_path(base_path) ==
    LET stripped == strip_leading(base_path)
        rest == SubSeq(stripped, Index(stripped, "/"), Len(stripped))
    IN  IF EndsWith(rest, <<"/">>) THEN rest ELSE rest \o <<"/">>

\* line 262: the storage list_ is restricted to
base_provider(base_path) == Split(strip_leading(base_path), "/")[1]

\* lines 274-277 and 290-292: the lines printed for the files of one storage
list_lines(prefix, listing, long_format) ==
    [k \in 1..Len(listing) |->
         OutputLine(FileHandle(prefix, listing[k]),
                    path_join(<<prefix, strip_leading(listing[k])>>),
                    long_format)]

\* lines 268-292: the storages in turn, those not named by the base path
\* skipped
RECURSIVE list_stores(_, _, _)
list_stores(stores, a, fi) ==
    IF stores = <<>> THEN <<>>
    ELSE LET prefix == Head(stores)
             rest == list_stores(Tail(stores), a, fi)
         IN  IF a.base_path = None
             THEN <<FilesCall(prefix)>>
                  \o list_lines(prefix, fi[prefix], a.long_format) \o rest
             ELSE IF base_provider(a.base_path) # prefix THEN rest
             ELSE LET pattern == base_file_path(a.base_path)
                  IN  <<MatchedFilesCall(prefix, pattern)>>
                      \o list_lines(prefix,
                                    matched_files(fi[prefix], pattern),
                                    a.long_format)
                      \o rest

\* the requests and the output of list_(args), lines 251-292
list_calls(a, fi) ==
    IF a.denied \/ list_raises(a) THEN <<ProjectCall>>
    ELSE <<ProjectCall, StoragesCall>> \o list_stores(StorageOrder, a, fi)

\* how list_(args) ends
list_exit(a) ==
    IF a.denied THEN might_need_auth_exit(a)
    ELSE IF list_raises(a) THEN "ValueError: substring not found"
    ELSE ""

----------------------------------------------------------------------------
(* Bounded inputs *)

\* all concatenations of at most n pieces
RECURSIVE Concats(_, _)
Concats(pieces, n) ==
    IF n = 0 THEN {<<>>}
    ELSE LET shorter == Concats(pieces, n - 1)
         IN  shorter \cup {s \o p : s \in shorter, p \in pieces}

MaxPieces == 4
PathPieces == {osfstorage, figshare, s3, <<"/">>, <<".">>, <<".", ".">>,
               <<"a">>}
Paths == Concats(PathPieces, MaxPieces)

\* values of the KNOWN_PROVIDERS environment variable
Envs == {None,
         Join(<<osfstorage, s3, github>>, ","),
         s3,
         <<>>}

MaxPatternLen == 4
MaxFileLen == 4
PatternChars == {<<"p">>, <<"-">>, <<"%">>, <<"/">>}
FileChars == {<<"p">>, <<"-">>, <<"/">>}
Patterns == Concats(PatternChars, MaxPatternLen) \cup {None}
FilePaths == Concats(FileChars, MaxFileLen)

----------------------------------------------------------------------------
(* Specification of the path helpers: Init draws the arguments and the     *)
(* environment, each action applies one function once.                     *)

CliIdle ==
    /\ folders = <<>> /\ files = <<>> /\ args = NoArgs /\ pre = <<>>
    /\ calls = <<>> /\ exit = "" /\ creds = NoCreds /\ nops = 0

InitPath ==
    /\ fn = "none"
    /\ path \in Paths
    /\ normalize \in BOOLEAN
    /\ env \in Envs
    /\ result = None
    /\ target_file_path = None /\ file_path = <<>>
    /\ CliIdle

NormRemotePath ==
    /\ fn = "none"
    /\ fn' = "norm_remote_path"
    /\ result' = norm_remote_path(path)
    /\ UNCHANGED <<utilsVars, matchVars, cliVars>>

SplitStorage ==
    /\ fn = "none"
    /\ fn' = "split_storage"
    /\ result' = split_storage(path, osfstorage, normalize, env)
    /\ UNCHANGED <<utilsVars, matchVars, cliVars>>

NextPath == NormRemotePath \/ SplitStorage

SpecPath == InitPath /\ [][NextPath]_vars

(* Specification of the matcher *)

InitMatch ==
    /\ fn = "none"
    /\ target_file_path \in Patterns
    /\ file_path \in FilePaths
    /\ result = None
    /\ path = <<>> /\ normalize = TRUE /\ env = None
    /\ CliIdle

IsPathMatched ==
    /\ fn = "none"
    /\ fn' = "is_path_matched"
    /\ result' = is_path_matched(target_file_path, file_path)
    /\ UNCHANGED <<utilsVars, matchVars, cliVars>>

NextMatch == IsPathMatched

SpecMatch == InitMatch /\ [][NextMatch]_vars

----------------------------------------------------------------------------
(* Specification of the command line: Init draws the remote project and    *)
(* the credentials, each action runs one command to completion.            *)

MaxOps == 1
MaxDepth == 3
Segments == {<<"c">>, <<"n">>}

\* relative paths of one to n segments
RECURSIVE SegPaths(_)
SegPaths(n) ==
    IF n = 1 THEN Segments
    ELSE LET shorter == SegPaths(n - 1)
         IN  shorter \cup {q \o <<"/">> \o g : q \in shorter, g \in Segments}

MoveTargets ==
    {<<>>} \cup SegPaths(MaxDepth)
    \cup {q \o <<"/">> : q \in SegPaths(MaxDepth)}
    \cup {osfstorage \o <<"/">>,
          osfstorage \o <<"/", "c", "/">>,
          osfstorage \o <<"/", "n">>,
          github \o <<"/", "c", "/">>,
          github \o <<"/", "n">>}

MoveSources == {<<"/", ".", "/", "f">>, <<"c">>}

\* the remote projects a run may start from
InitialFolders ==
    {<<>>,
     <<<<"/", "c">>>>,
     <<<<"/", "c">>, <<"/", "c", "/", "c">>>>}

\* (the listing of the first project has two entries of the same path, as a
\* provider that allows equal names yields them)
InitialFiles(fo) ==
    IF fo = <<>> THEN <<<<"/", "f">>, <<"/", "f">>>>
    ELSE <<<<"/", "f">>, <<"/", "c", "/", "f">>>>

Credentials ==
    {[username |-> None, token |-> None],
     [username |-> <<"j", "o", "e">>, token |-> None],
     [username |-> None, token |-> <<"t">>]}

InitCli ==
    /\ fn = "none"
    /\ \E fo \in InitialFolders :
           /\ folders = [n \in StorageNames |->
                             IF n = osfstorage THEN fo ELSE <<>>]
           /\ files = [n \in StorageNames |->
                           IF n = osfstorage THEN InitialFiles(fo)
                           ELSE <<<<"/", "f">>>>]
    /\ creds \in Credentials
    /\ args = NoArgs
    /\ pre = <<>>
    /\ calls = <<>>
    /\ exit = ""
    /\ nops = 0
    /\ path = <<>> /\ normalize = TRUE /\ env = None
    /\ result = None
    /\ target_file_path = None /\ file_path = <<>>

\* cli.move, lines 373-416, together with its effect on the project
Move(source, target, force) ==
    LET a == [cmd |-> "move", source |-> source, target |-> target,
              force |-> force]
    IN  /\ nops < MaxOps
        /\ nops' = nops + 1
        /\ fn' = "move"
        /\ args' = a
        /\ pre' = <<folders, files>>
        /\ IF needs_credentials(creds)
           THEN /\ exit' = "To move a file you need to provide a username and password or token."
                /\ calls' = <<>>
                /\ UNCHANGED <<folders, files>>
           ELSE /\ exit' = ""
                /\ calls' = move_calls(a, folders, files, env)
                /\ folders' = folders_after(folders, calls')
                /\ files' = files_after(files, calls')
        /\ UNCHANGED <<utilsVars, matchVars, result, creds>>

RemoveTargets == {<<"/", ".", "/", "f">>, <<"c">>, github \o <<"/", "f">>}

\* cli.remove, lines 350-370, together with its effect on the project
Remove(target) ==
    LET a == [cmd |-> "remove", target |-> target]
    IN  /\ nops < MaxOps
        /\ nops' = nops + 1
        /\ fn' = "remove"
        /\ args' = a
        /\ pre' = <<folders, files>>
        /\ IF needs_credentials(creds)
           THEN /\ exit' = "To remove a file you need to provide a username and password or token."
                /\ calls' = <<>>
                /\ UNCHANGED files
           ELSE /\ exit' = ""
                /\ calls' = remove_calls(a, files, env)
                /\ files' = files_after(files, calls')
        /\ UNCHANGED <<utilsVars, matchVars, result, creds, folders>>

FetchRemotes == {<<"/", ".", "/", "f">>, <<"c">>}
FetchLocals == {None, <<"d", "/", "l">>}

\* what fetch is called with and what it finds on the local disk: whether
\* the local path and its directory exist, and whether the local checksum
\* equals the md5 of the remote file
FetchArgs ==
    {a \in [cmd : {"fetch"}, remote : FetchRemotes, local : FetchLocals,
            force : BOOLEAN, update : BOOLEAN, local_exists : BOOLEAN,
            dir_exists : BOOLEAN, md5_equal : BOOLEAN,
            local_path : {<<>>}] :
        /\ a.local_exists => a.dir_exists
        /\ a.local = None => a.dir_exists
        /\ a.md5_equal => a.local_exists}

\* cli.fetch, lines 199-243
Fetch(a0) ==
    LET a == [a0 EXCEPT !.local_path = fetch_local_path(a0, env)]
    IN  /\ nops < MaxOps
        /\ nops' = nops + 1
        /\ fn' = "fetch"
        /\ args' = a
        /\ pre' = <<folders, files>>
        /\ exit' = IF fetch_aborts(a)
                   THEN "Local file %s already exists, not overwriting."
                   ELSE ""
        /\ calls' = fetch_calls(a, files, env)
        /\ UNCHANGED <<utilsVars, matchVars, result, creds, folders, files>>

UploadSources == {<<"d">>, <<"d", "/">>, <<"a", "/", "d">>}
UploadDestinations == {<<"b">>, <<"/">>, github \o <<"/", "b">>}

\* what os.walk finds under a source directory: its directories, the source
\* itself first, each with the names of its files
MaxFiles == 3
LocalTrees ==
    {<<[dir |-> <<>>, files |-> <<<<"f">>>>]>>,
     <<[dir |-> <<>>, files |-> <<<<"f">>, <<"g">>>>],
       [dir |-> <<<<"s">>>>, files |-> <<<<"h">>>>]>>}

RECURSIVE FileCount(_)
FileCount(tree) ==
    IF tree = <<>> THEN 0
    ELSE Len(Head(tree).files) + FileCount(Tail(tree))

\* what upload is called with and what it finds: whether the source is a
\* directory, the local tree under it, and the create_file call that raises
\* (0: none does); a source uploaded without the recursive option is a file
UploadArgs ==
    {a \in [cmd : {"upload"}, source : UploadSources,
            destination : UploadDestinations, recursive : BOOLEAN,
            force : BOOLEAN, update : BOOLEAN, isdir : BOOLEAN,
            tree : LocalTrees \cup {<<>>}, fail : 0..MaxFiles] :
        /\ a.isdir <=> a.tree # <<>>
        /\ a.recursive => a.fail <= FileCount(a.tree)
        /\ ~a.recursive => ~a.isdir /\ a.fail <= 1}

\* cli.upload, lines 295-347, together with its effect on the project
Upload(a) ==
    /\ nops < MaxOps
    /\ nops' = nops + 1
    /\ fn' = "upload"
    /\ args' = a
    /\ pre' = <<folders, files>>
    /\ IF needs_credentials(creds)
       THEN /\ exit' = "To upload a file you need to provide a username and password or token."
            /\ calls' = <<>>
            /\ UNCHANGED files
       ELSE /\ calls' = upload_calls(a, env)
            /\ exit' = upload_exit(a, calls')
            /\ files' = files_after(files, calls')
    /\ UNCHANGED <<utilsVars, matchVars, result, creds, folders>>

NextCli ==
    \/ \E source \in MoveSources, target \in MoveTargets, force \in BOOLEAN :
           Move(source, target, force)
    \/ \E target \in RemoveTargets : Remove(target)
    \/ \E a \in FetchArgs : Fetch(a)

SpecCli == InitCli /\ [][NextCli]_vars

\* upload on the project without folders
InitUpload == InitCli /\ folders[osfstorage] = <<>>

NextUpload == \E a \in UploadArgs : Upload(a)

SpecUpload == InitUpload /\ [][NextUpload]_vars

\* the commands that need credentials, on the project without folders
WriteMoveTargets == {<<>>, <<"c", "/">>, <<"n">>}

NextWrite ==
    \/ \E a \in UploadArgs : Upload(a)
    \/ \E target \in RemoveTargets : Remove(target)
    \/ \E source \in MoveSources, target \in WriteMoveTargets,
          force \in BOOLEAN :
           Move(source, target, force)

SpecWrite == InitUpload /\ [][NextWrite]_vars

ListBasePaths ==
    {None, osfstorage, osfstorage \o <<"/">>,
     <<"/">> \o osfstorage \o <<"/", "c">>,
     osfstorage \o <<"/", "c", "/">>, github \o <<"/", "f">>,
     <<"x", "/">>}

\* what list_ is called with and what it finds: the username of the command
\* line, of OSF_USERNAME and of the config file, OSF_TOKEN, and whether the
\* backend refuses the project (UnauthorizedException)
ListArgs ==
    {a \in [cmd : {"list"}, base_path : ListBasePaths,
            long_format : BOOLEAN, username : {None, <<"j", "o", "e">>},
            env_username : {None, <<"e">>}, file_username : {None, <<"c">>},
            env_token : {None, <<"t">>}, denied : BOOLEAN] :
        a.denied => a.base_path = None /\ ~a.long_format}

\* cli.list_ under might_need_auth, lines 101-124 and 246-292
List(a) ==
    /\ nops < MaxOps
    /\ nops' = nops + 1
    /\ fn' = "list"
    /\ args' = a
    /\ pre' = <<folders, files>>
    /\ creds' = setup_osf(a)
    /\ calls' = list_calls(a, files)
    /\ exit' = list_exit(a)
    /\ UNCHANGED <<utilsVars, matchVars, result, folders, files>>

\* list_ sets up its own credentials
InitList == InitCli /\ creds = NoCreds

NextList == \E a \in ListArgs : List(a)

SpecList == InitList /\ [][NextList]_vars

----------------------------------------------------------------------------
(* Properties of split_storage and norm_remote_path, under SpecPath *)

Slash == <<"/">>

\* the path split_storage scans: normalized when normalize is set
Scanned == IF normalize THEN norm_remote_path(path) ELSE path

\* the providers whose name followed by '/' prefixes the scanned path
Hits ==
    LET kp == known_providers(env)
    IN  {kp[i] : i \in {j \in 1..Len(kp) : StartsWith(Scanned, kp[j] \o Slash)}}

\* s with its first n characters removed
Drop(s, n) == SubSeq(s, n + 1, Len(s))

\* C1: split_storage with normalization returns (provider, rest of the
\* normalized path after the provider name and its separator) when the
\* normalized path begins with a known provider followed by '/', and
\* (default provider, normalized path) otherwise.
C1_SplitConsumesKnownProvider ==
    (fn = "split_storage" /\ normalize) =>
        IF Hits # {}
        THEN \E prov \in Hits :
                 result = <<prov, Drop(Scanned, Len(prov) + 1)>>
        ELSE result = <<osfstorage, Scanned>>

C1_Witness ==
    /\ fn = "split_storage" /\ normalize /\ env = None
    /\ path = Slash \o figshare \o Slash \o <<"a">>
    /\ result = <<figshare, <<"a">>>>

\* n is one of the comma-separated names of the override string e
IsItem(n, e) ==
    \E i \in 1..(Len(e) + 1) :
        /\ i = 1 \/ e[i - 1] = ","
        /\ i + Len(n) - 1 <= Len(e)
        /\ SubSeq(e, i, i + Len(n) - 1) = n
        /\ i + Len(n) = Len(e) + 1 \/ e[i + Len(n)] = ","

\* the text of s before its first '/'
FirstSegment(s) == SubSeq(s, 1, Index(s, "/") - 1)

\* C2: with the KNOWN_PROVIDERS override set, split_storage splits exactly
\* on the names listed in the override: a path whose first segment is not one
\* of them (a built-in name included) is returned whole under the default
\* provider, a path whose first segment is one of them is split on it.
C2_OverrideReplacesBuiltins ==
    (fn = "split_storage" /\ env # None) =>
        IF HasChar(Scanned, "/") /\ IsItem(FirstSegment(Scanned), env)
        THEN result = <<FirstSegment(Scanned),
                        Drop(Scanned, Len(FirstSegment(Scanned)) + 1)>>
        ELSE result = <<osfstorage, Scanned>>

C2_Witness ==
    /\ fn = "split_storage" /\ normalize
    /\ env = Join(<<osfstorage, s3, github>>, ",")
    /\ path = figshare \o Slash \o <<"a">>
    /\ result = <<osfstorage, figshare \o Slash \o <<"a">>>>

\* C3 as stated: re-joining provider + '/' + relative path gives the
\* normalized form of the path, for every path.
C3_RejoinAlways ==
    (fn = "split_storage" /\ normalize) =>
        result[1] \o Slash \o result[2] = norm_remote_path(path)

\* C3 as amended: the re-join gives the normalized path when the normalized
\* path begins with a known provider followed by '/'; otherwise the relative
\* path alone is the normalized path and the provider is the default.
C3_RejoinWhenProviderConsumed ==
    (fn = "split_storage" /\ normalize) =>
        IF Hits # {}
        THEN result[1] \o Slash \o result[2] = norm_remote_path(path)
        ELSE result[2] = norm_remote_path(path) /\ result[1] = osfstorage

C3_Witness ==
    /\ fn = "split_storage" /\ normalize /\ env = s3
    /\ path = Slash \o s3 \o Slash \o <<"a">>
    /\ result[1] \o Slash \o result[2] = s3 \o Slash \o <<"a">>

\* C4: norm_remote_path is idempotent.
C4_NormIdempotent ==
    fn = "norm_remote_path" => norm_remote_path(result) = result

----------------------------------------------------------------------------
(* Properties of is_path_matched, under SpecMatch *)

PatternSegs == drop_last_empty(Split(target_file_path, "/"))
FileSegs == drop_last_empty(Split(file_path, "/"))

\* C5: is_path_matched holds exactly when every pair among the first
\* min(#pattern segments, #path segments) segments matches; a None pattern
\* matches every path.
C5_MatchOnOverlap ==
    fn = "is_path_matched" =>
        (result <=>
            \/ target_file_path = None
            \/ \A i \in 1..Min(Len(PatternSegs), Len(FileSegs)) :
                   seg_matched(PatternSegs[i], FileSegs[i]))

C5_Witness ==
    /\ fn = "is_path_matched"
    /\ target_file_path = <<"p", "/", "p">>
    /\ file_path = <<"p">>
    /\ result = TRUE

\* the wildcard rule of one pattern segment, as the claim words it
SegRule(t, f) ==
    IF Len(t) >= 2 /\ t[1] = "%" /\ t[Len(t)] = "%"
    THEN \E i \in 1..(Len(f) + 1) : \E j \in (i - 1)..Len(f) :
             SubSeq(f, i, j) = SubSeq(t, 2, Len(t) - 1)
    ELSE IF Len(t) >= 1 /\ t[1] = "%"
    THEN \E i \in 1..(Len(f) + 1) : SubSeq(f, i, Len(f)) = Drop(t, 1)
    ELSE IF Len(t) >= 1 /\ t[Len(t)] = "%"
    THEN \E j \in 0..Len(f) : SubSeq(f, 1, j) = SubSeq(t, 1, Len(t) - 1)
    ELSE f = t

\* C6: for a one-segment pattern against a one-segment path, '%t%' matches
\* iff the path segment contains t, '%t' iff it ends with t, 't%' iff it
\* starts with t, and any other pattern iff the two are equal.
C6_WildcardRules ==
    (/\ fn = "is_path_matched" /\ target_file_path # None
     /\ target_file_path # <<>> /\ file_path # <<>>
     /\ ~HasChar(target_file_path, "/") /\ ~HasChar(file_path, "/")) =>
        (result <=> SegRule(target_file_path, file_path))

C6_Witness ==
    /\ fn = "is_path_matched"
    /\ target_file_path = <<"%", "p">>
    /\ file_path = <<"-", "p">>
    /\ result = TRUE

\* C7 as stated: appending one or more '/' to the pattern or to the path
\* never changes the result.
C7_AnyTrailingSeparators ==
    (fn = "is_path_matched" /\ target_file_path # None) =>
        \A extra \in {Slash, Slash \o Slash} :
            /\ is_path_matched(target_file_path \o extra, file_path) = result
            /\ is_path_matched(target_file_path, file_path \o extra) = result

\* C7 as amended: appending one '/' to a non-empty pattern, or to a
\* non-empty path, that does not already end with '/' does not change the
\* result.
C7_OneTrailingSeparator ==
    (fn = "is_path_matched" /\ target_file_path # None) =>
        /\ (target_file_path # <<>> /\ ~EndsWith(target_file_path, Slash))
               => is_path_matched(target_file_path \o Slash, file_path)
                      = result
        /\ (file_path # <<>> /\ ~EndsWith(file_path, Slash))
               => is_path_matched(target_file_path, file_path \o Slash)
                      = result

C7_Witness ==
    /\ fn = "is_path_matched"
    /\ target_file_path = <<"p">>
    /\ file_path = <<"p", "/", "p">>
    /\ result = TRUE
    /\ is_path_matched(target_file_path \o Slash, file_path)

----------------------------------------------------------------------------
(* Properties of move and _ensure_folder, under SpecCli *)

\* the command ran past its credential check
Ran(cmd) == fn = cmd /\ exit = ""

Creates == SelectSeq(calls, LAMBDA c : c.op = "create_folder")
MoveTos == SelectSeq(calls, LAMBDA c : c.op = "move_to")

\* the target of the last move, split without normalization
TargetStorage == split_storage(args.target, osfstorage, FALSE, env)[1]
TargetPath == split_storage(args.target, osfstorage, FALSE, env)[2]

\* the move passed a folder path to _ensure_folder: the target path
\* without its trailing separator
EnsuredPath == SubSeq(TargetPath, 1, Len(TargetPath) - 1)
EnsuresFolder == Ran("move") /\ EndsWith(TargetPath, Slash)

\* the folders listed on the target storage before the command whose
\* normalized path is q
ExistingFolders(q) ==
    LET listing == pre[1][TargetStorage]
    IN  {listing[i] : i \in {j \in 1..Len(listing) :
                                 norm_remote_path(listing[j]) = q}}

\* the first k segments of the ensured path, joined
EnsuredSegs == Split(EnsuredPath, "/")
EnsuredPrefix(k) == Join(SubSeq(EnsuredSegs, 1, k), "/")

\* the create_folder calls that create segment k of the ensured path: a call
\* named by that segment alone, made on the folder of the first k-1 segments
CreatesOfSegment(k) ==
    {i \in 1..Len(Creates) :
        /\ Creates[i].name = EnsuredSegs[k]
        /\ norm_remote_path(Created(Creates[i].on, Creates[i].name).path)
               = EnsuredPrefix(k)}

\* C8: _ensure_folder issues exactly one create_folder call for each segment
\* of the path whose folder does not exist yet, none for a segment whose
\* folder exists, and no other create_folder call, whatever the depth.
C8_OneCreatePerMissingSegment ==
    EnsuresFolder =>
        /\ \A k \in 1..Len(EnsuredSegs) :
               Cardinality(CreatesOfSegment(k)) =
                   IF ExistingFolders(EnsuredPrefix(k)) = {} THEN 1 ELSE 0
        /\ Len(Creates) =
               Cardinality({k \in 1..Len(EnsuredSegs) :
                                ExistingFolders(EnsuredPrefix(k)) = {}})

\* C9: for a two-segment path a/new, when a exists and a/new does not the one
\* create_folder call is new on folder a; when neither exists there are two
\* calls, a on the storage and then new on the folder just created.
C9_TwoSegmentEnsure ==
    (EnsuresFolder /\ Len(EnsuredSegs) = 2
     /\ ExistingFolders(EnsuredPath) = {}) =>
        LET a == EnsuredSegs[1]
            new == EnsuredSegs[2]
            store == StorageHandle(TargetStorage)
        IN  IF ExistingFolders(a) # {}
            THEN \E f \in ExistingFolders(a) :
                     Creates = <<CreateFolderCall(
                                     FolderHandle(TargetStorage, f), new)>>
            ELSE Creates = <<CreateFolderCall(store, a),
                             CreateFolderCall(Created(store, a), new)>>

C9_Witness ==
    /\ EnsuresFolder
    /\ args.target = <<"n", "/", "c", "/">>
    /\ Len(Creates) = 2
    /\ Creates[1].on.kind = "storage" /\ Creates[2].on.kind = "folder"

\* C10: a move whose provider-relative target ends with a separator passes
\* to every move_to the folder of that path (separator removed) on the target
\* storage and no new name; when that folder exists it is the listed folder
\* and no folder is created.
C10_FolderTargetNoRename ==
    EnsuresFolder =>
        /\ \A i \in 1..Len(MoveTos) :
               /\ MoveTos[i].name = None
               /\ MoveTos[i].storage = TargetStorage
               /\ MoveTos[i].dest.kind = "folder"
               /\ MoveTos[i].dest.storage = TargetStorage
               /\ norm_remote_path(MoveTos[i].dest.path) = EnsuredPath
        /\ ExistingFolders(EnsuredPath) # {} =>
               /\ Creates = <<>>
               /\ \A i \in 1..Len(MoveTos) :
                      MoveTos[i].dest.path \in ExistingFolders(EnsuredPath)

C10_Witness ==
    /\ EnsuresFolder
    /\ args.target = <<"c", "/", "c", "/">>
    /\ ExistingFolders(EnsuredPath) # {}
    /\ Len(MoveTos) = 1
    /\ MoveTos[1].dest = FolderHandle(osfstorage, <<"/", "c", "/", "c">>)
    /\ Creates = <<>>

\* the position of the last separator of s (only used where s has one)
LastIndex(s, c) == CHOOSE i \in 1..Len(s) :
                       s[i] = c /\ \A j \in (i + 1)..Len(s) : s[j] # c

\* the move names a folder and a new name: the target path has a separator
\* and does not end with one
RenamesIntoFolder ==
    Ran("move") /\ HasChar(TargetPath, "/") /\ ~EndsWith(TargetPath, Slash)

\* C11: a target with an inner separator and no trailing one moves into the
\* folder named by everything before the LAST separator, under the name that
\* follows it, whatever the depth.
C11_SplitAtLastSeparator ==
    RenamesIntoFolder =>
        LET last == LastIndex(TargetPath, "/")
        IN  \A i \in 1..Len(MoveTos) :
                /\ MoveTos[i].name = SubSeq(TargetPath, last + 1,
                                            Len(TargetPath))
                /\ norm_remote_path(MoveTos[i].dest.path)
                       = SubSeq(TargetPath, 1, last - 1)

\* C12: a target that is empty or has no separator passes the storage itself
\* as destination, with no folder listing and no create_folder call; the new
\* name is absent for the empty target and is the target otherwise.
C12_RootTarget ==
    (Ran("move") /\ ~HasChar(TargetPath, "/")) =>
        /\ \A i \in 1..Len(calls) :
               calls[i].op \notin {"folders", "create_folder"}
        /\ \A i \in 1..Len(MoveTos) :
               /\ MoveTos[i].dest = StorageHandle(TargetStorage)
               /\ MoveTos[i].name =
                      IF TargetPath = <<>> THEN None ELSE TargetPath

C12_Witness ==
    /\ Ran("move")
    /\ args.target = osfstorage \o <<"/", "n">>
    /\ Len(MoveTos) >= 1
    /\ MoveTos[1].dest = StorageHandle(osfstorage)
    /\ MoveTos[1].name = <<"n">>

\* the source path of the last move, remove or fetch, split and normalized
SourceArg ==
    IF fn = "move" THEN args.source
    ELSE IF fn = "remove" THEN args.target
    ELSE args.remote
SourceStorage == split_storage(SourceArg, osfstorage, TRUE, env)[1]
SourcePath == split_storage(SourceArg, osfstorage, TRUE, env)[2]

\* the entries listed on the source storage before the command whose
\* normalized path is the source path
MatchingFiles ==
    LET listing == pre[2][SourceStorage]
    IN  {i \in 1..Len(listing) : norm_remote_path(listing[i]) = SourcePath}
MatchingFolders ==
    LET listing == pre[1][SourceStorage]
    IN  {i \in 1..Len(listing) : norm_remote_path(listing[i]) = SourcePath}

\* C13: a move whose source path is the normalized path of a remote folder,
\* and of no file, calls move_to on that folder with the target provider.
C13_FolderSourceMoved ==
    (Ran("move") /\ MatchingFolders # {} /\ MatchingFiles = {}) =>
        \E i \in 1..Len(MoveTos) :
            /\ MoveTos[i].on.kind = "folder"
            /\ MoveTos[i].on.storage = SourceStorage
            /\ norm_remote_path(MoveTos[i].on.path) = SourcePath
            /\ MoveTos[i].storage = TargetStorage

\* C14: a move issues at most one move_to call, even when several entries
\* of the listing have the normalized path of the source.
C14_AtMostOneMoveTo == Ran("move") => Len(MoveTos) <= 1

Writes == SelectSeq(calls, LAMBDA c : c.op = "write_to")

\* a move, remove or fetch that got as far as looking for its source
Searched ==
    \/ fn \in {"move", "remove"} /\ has_auth(creds)
    \/ fn = "fetch" /\ ~fetch_aborts(args)

\* C15: a move, remove or fetch whose source path matches no remote entry
\* completes without error and without side effect: no move_to, remove or
\* write_to call, no remote folder created, no local file or directory
\* created, the project left as it was.
C15_NoMatchNoEffect ==
    (Searched /\ MatchingFiles = {} /\ MatchingFolders = {}) =>
        /\ exit = ""
        /\ \A i \in 1..Len(calls) :
               /\ calls[i].op \notin
                      {"move_to", "remove", "write_to", "create_folder"}
               /\ calls[i].op = "makedirs" => args.dir_exists
        /\ folders = pre[1]
        /\ files = pre[2]

\* C16: a fetch into a local path that exists, with neither force nor update
\* set, terminates with the 'not overwriting' failure, writes nothing locally
\* and issues no request to the backend.
C16_NoOverwriteAbort ==
    (fn = "fetch" /\ args.local_exists /\ ~args.force /\ ~args.update) =>
        /\ exit = "Local file %s already exists, not overwriting."
        /\ calls = <<>>

C16_Witness ==
    /\ fn = "fetch"
    /\ args.local_exists /\ ~args.force /\ ~args.update
    /\ MatchingFiles # {}
    /\ exit # ""
    /\ calls = <<>>

\* C17: a fetch that is not aborted and whose remote path matches a remote
\* file writes the local file iff the local path did not exist, or force is
\* set, or update is set without force and the remote md5 differs from the
\* local checksum; it writes at most one file, the first match, to the
\* local path.
C17_FetchWriteRule ==
    (Ran("fetch") /\ MatchingFiles # {}) =>
        /\ Len(Writes) <= 1
        /\ Len(Writes) = 1 <=>
               \/ ~args.local_exists
               \/ args.force
               \/ args.update /\ ~args.force /\ ~args.md5_equal
        /\ \A i \in 1..Len(Writes) :
               /\ Writes[i].name = args.local_path
               /\ Writes[i].on =
                      FileHandle(SourceStorage,
                                 pre[2][SourceStorage]
                                     [CHOOSE m \in MatchingFiles :
                                          \A n \in MatchingFiles : m <= n])

C17_Witness ==
    /\ Ran("fetch")
    /\ Cardinality(MatchingFiles) = 2
    /\ args.local_exists /\ args.update /\ ~args.force /\ ~args.md5_equal
    /\ Len(Writes) = 1

C17_WitnessSkip ==
    /\ Ran("fetch")
    /\ MatchingFiles # {}
    /\ args.local_exists /\ args.update /\ ~args.force /\ args.md5_equal
    /\ Writes = <<>>

CreateFiles == SelectSeq(calls, LAMBDA c : c.op = "create_file")

\* an authorized upload with the recursive option
RecursiveUpload == fn = "upload" /\ has_auth(creds) /\ args.recursive

\* C18: a recursive upload whose source is not a directory fails before any
\* network call: neither the project nor the storage has been requested.
C18_NotDirBeforeNetwork ==
    (RecursiveUpload /\ ~args.isdir) =>
        /\ exit # ""
        /\ calls = <<>>

\* C19: in a recursive upload create_file is called for every file of the
\* directory walk, also when the call for one of them fails.
C19_EveryFileAttempted ==
    (RecursiveUpload /\ args.isdir) =>
        Len(CreateFiles) = FileCount(args.tree)

\* C19 (amended): the create_file call that fails is the last call of the
\* recursive upload: the files before it in the walk have been created, none
\* after it is attempted, and the upload ends with that failure.
C19_FailureEndsWalk ==
    (RecursiveUpload /\ args.isdir /\ args.fail > 0) =>
        /\ Len(CreateFiles) = args.fail
        /\ \A j \in 1..Len(CreateFiles) :
               CreateFiles[j].raised <=> j = args.fail
        /\ exit = "create_file raised"

C19_Witness ==
    /\ RecursiveUpload
    /\ FileCount(args.tree) = 3
    /\ args.fail = 1
    /\ Len(CreateFiles) = 1
    /\ exit # ""

\* the files of a local tree in the order of the walk, each with the path
\* of its directory relative to the source ('.' for the source itself)
RECURSIVE TreeFiles(_)
TreeFiles(tree) ==
    IF tree = <<>> THEN <<>>
    ELSE [k \in 1..Len(Head(tree).files) |->
              [subdir |-> IF Head(tree).dir = <<>> THEN <<".">>
                          ELSE Join(Head(tree).dir, "/"),
               fname |-> Head(tree).files[k]]]
         \o TreeFiles(Tail(tree))

\* the path made of the non-empty parts
PathOf(parts) == Join(SelectSeq(parts, LAMBDA x : x # <<>>), "/")

RemoteBase == split_storage(args.destination, osfstorage, TRUE, env)[2]

\* C20: a recursive upload that runs to its end calls create_file exactly
\* once for every file under the source directory; the remote name is
\* remote_base/relative_subdirectory/filename when the source ends in '/',
\* and remote_base/<local directory name>/relative_subdirectory/filename
\* otherwise.
C20_RemoteNames ==
    (Ran("upload") /\ args.recursive) =>
        LET found == TreeFiles(args.tree)
        IN  /\ Len(CreateFiles) = Len(found)
            /\ \A j \in 1..Len(found) :
                   CreateFiles[j].name =
                       IF EndsWith(args.source, Slash)
                       THEN PathOf(<<RemoteBase, found[j].subdir,
                                     found[j].fname>>)
                       ELSE PathOf(<<RemoteBase, Basename(args.source),
                                     found[j].subdir, found[j].fname>>)

C20_Witness ==
    /\ Ran("upload") /\ args.recursive
    /\ args.source = <<"a", "/", "d">>
    /\ args.destination = <<"b">>
    /\ Len(CreateFiles) = 3
    /\ CreateFiles[1].name = <<"b", "/", "d", "/", ".", "/", "f">>
    /\ CreateFiles[3].name = <<"b", "/", "d", "/", "s", "/", "h">>

C20_WitnessSlash ==
    /\ Ran("upload") /\ args.recursive
    /\ args.source = <<"d", "/">>
    /\ args.destination = <<"b">>
    /\ Len(CreateFiles) = 3
    /\ CreateFiles[3].name = <<"b", "/", "s", "/", "h">>

----------------------------------------------------------------------------
(* Properties of might_need_auth and list_, under SpecList *)

ProjectRequests == SelectSeq(calls, LAMBDA c : c.op = "project")

\* no username on the command line, in the environment or in the config file
NoUsername ==
    /\ args.username = None
    /\ args.env_username = None
    /\ args.file_username = None

\* C21: when the wrapped command reports an authorization failure the
\* process terminates, with the 'set a username or token' message iff no
\* username and no token is resolvable and with the 'not authorized' message
\* otherwise; the command has been run once and is not retried.
C21_AuthFailureExit ==
    (fn = "list" /\ args.denied) =>
        /\ exit = IF NoUsername /\ args.env_token = None
                  THEN "Please set a username or token (run 'osf -h' for details)."
                  ELSE "You are not authorized to access this project."
        /\ Len(ProjectRequests) = 1
        /\ Len(calls) = 1

C21_Witness ==
    /\ fn = "list" /\ args.denied
    /\ args.username = None /\ args.env_username # None
    /\ args.env_token = None
    /\ exit = "You are not authorized to access this project."

C21_WitnessAnonymous ==
    /\ fn = "list" /\ args.denied
    /\ NoUsername /\ args.env_token = None
    /\ exit = "Please set a username or token (run 'osf -h' for details)."

Outputs == SelectSeq(calls, LAMBDA c : c.op = "stdout")

\* the lines for the given files of a storage: the storage name, a
\* separator, the path of the file without its leading separator
ExpectedLines(n, listing) ==
    [k \in 1..Len(listing) |->
         n \o <<"/">> \o (IF StartsWith(listing[k], Slash)
                          THEN Tail(listing[k]) ELSE listing[k])]

RECURSIVE AllLines(_)
AllLines(stores) ==
    IF stores = <<>> THEN <<>>
    ELSE ExpectedLines(Head(stores), pre[2][Head(stores)])
         \o AllLines(Tail(stores))

\* the base path of the last list_ without its leading separator, its first
\* segment, and the remainder ending in a separator
BasePath ==
    IF StartsWith(args.base_path, Slash) THEN Tail(args.base_path)
    ELSE args.base_path
BaseProvider == Split(BasePath, "/")[1]
BasePattern ==
    LET rest == SubSeq(BasePath, Len(BaseProvider) + 1, Len(BasePath))
    IN  IF EndsWith(rest, Slash) THEN rest ELSE rest \o Slash

\* C23: list_ with a base path (provider or provider/relative/path, with or
\* without a leading separator) prints exactly the files of the storage
\* named by the first segment whose path is_path_matched against the
\* remainder with a trailing separator; without a base path it prints every
\* file of every storage once, in the order of the backend, prefixed with
\* the storage name.
C23_ListFilter ==
    (fn = "list" /\ ~args.denied) =>
        /\ exit = ""
        /\ [k \in 1..Len(Outputs) |-> Outputs[k].name] =
               IF args.base_path = None THEN AllLines(StorageOrder)
               ELSE IF BaseProvider \notin StorageNames THEN <<>>
               ELSE ExpectedLines(
                        BaseProvider,
                        SelectSeq(pre[2][BaseProvider],
                                  LAMBDA f : is_path_matched(BasePattern, f)))

----------------------------------------------------------------------------
(* Properties of the commands that need credentials, under SpecWrite *)

\* C22: upload, remove and move invoked with no username and no token
\* terminate with the message asking for a username and password or token,
\* before the project is requested and before any create_file, remove,
\* create_folder or move_to call.
C22_AnonymousRefused ==
    (fn \in {"upload", "remove", "move"} /\ creds = NoCreds) =>
        /\ exit = IF fn = "upload"
                  THEN "To upload a file you need to provide a username and password or token."
                  ELSE IF fn = "remove"
                  THEN "To remove a file you need to provide a username and password or token."
                  ELSE "To move a file you need to provide a username and password or token."
        /\ calls = <<>>
        /\ folders = pre[1]
        /\ files = pre[2]

C22_Witness ==
    /\ fn = "upload" /\ creds = NoCreds
    /\ args.recursive /\ args.isdir /\ args.fail = 0
    /\ exit # ""
    /\ calls = <<>>

C22_WitnessMove ==
    /\ fn = "move" /\ creds = NoCreds
    /\ args.target = <<"c", "/">>
    /\ exit # ""
    /\ calls = <<>>

C22_WitnessRemove ==
    /\ fn = "remove" /\ creds = NoCreds
    /\ exit # ""
    /\ calls = <<>>

----------------------------------------------------------------------------
(* Further properties of move and remove, under SpecCli *)

FolderLookups == SelectSeq(calls, LAMBDA c : c.op = "folders")

\* C24: in every move the folder lookups and create_folder calls for the
\* target folder come before the listing of the source and before every
\* move_to call, so no create_folder follows a move_to; _ensure_folder is
\* entered at most twice, the call and one recursive call.
C24_EnsureBeforeScan ==
    Ran("move") =>
        /\ \A i, j \in 1..Len(calls) :
               (/\ calls[i].op \in {"folders", "create_folder"}
                /\ calls[j].op \in {"files", "move_to"}) => i < j
        /\ Len(FolderLookups) <= 2

C24_Witness ==
    /\ Ran("move")
    /\ args.target = <<"c", "/", "c", "/", "c", "/">>
    /\ Len(FolderLookups) = 2
    /\ Len(Creates) = 2
    /\ Len(MoveTos) >= 1

Removes == SelectSeq(calls, LAMBDA c : c.op = "remove")

\* the files listed on the source storage before the command whose
\* normalized path is the source path, in the order of the listing
MatchingFileHandles ==
    LET listing == SelectSeq(pre[2][SourceStorage],
                             LAMBDA f : norm_remote_path(f) = SourcePath)
    IN  [k \in 1..Len(listing) |-> FileHandle(SourceStorage, listing[k])]

\* C25: remove calls remove() on exactly the files of the selected storage
\* whose normalized path equals the provider-relative target path, and on
\* no other file; the files of the other storages and all folders are left
\* as they were.
C25_RemoveExactlyMatches ==
    Ran("remove") =>
        /\ [k \in 1..Len(Removes) |-> Removes[k].on] = MatchingFileHandles
        /\ \A i \in 1..Len(calls) :
               calls[i].op \in {"project", "storage", "files", "remove"}
        /\ folders = pre[1]
        /\ \A n \in StorageNames \ {SourceStorage} : files[n] = pre[2][n]

C25_Witness ==
    /\ Ran("remove")
    /\ SourceStorage = osfstorage
    /\ Len(Removes) = 2
    /\ files[github] = pre[2][github]
    /\ files[github] # <<>>

C25_WitnessOtherStorage ==
    /\ Ran("remove")
    /\ SourceStorage = github
    /\ Len(Removes) = 1
    /\ files[osfstorage] = pre[2][osfstorage]

====
